---- MODULE Spec2Model ----
(***************************************************************************)
(* EV charger platform: the chargers table and the HTTP handlers of the    *)
(* two implementations, the Flask one (app/app.py) and the FastAPI one     *)
(* (fastapi_backend/main.py, fastapi_backend/models.py).                   *)
(*                                                                         *)
(* The table is a function from ids to rows.  The clock is the integer     *)
(* `now`; datetime.utcnow() reads it.  Within one handler the clock may    *)
(* advance once, before any of the handler's reads: the handler's input    *)
(* `p` is the index of the first read that sees the advanced clock (0: the *)
(* clock stands still while the handler runs).                             *)
(***************************************************************************)
EXTENDS Integers, Sequences, FiniteSets, TLC

VARIABLES impl, now, table, last, gone, reqs, stats

vars == <<impl, now, table, last, gone, reqs, stats>>

(***************************** bounds **************************************)
\* the clock runs from 0 to MaxTime
MaxTime == 2
\* ids requests may name or the table may assign lie in 1..MaxId
MaxId == 7

(***************************** values **************************************)
Impls == {"flask", "fastapi"}

\* a NULL timestamp column (None in Python)
NoTime == -1
\* a NULL text column (None in Python)
NULL == "<null>"
\* a query parameter or body field that the request does not carry
Absent == "<absent>"

Cols == {"location", "available", "power", "type", "notes",
         "last_used", "created_at", "updated_at"}
BodyCols == {"location", "available", "power", "type", "notes"}

Max(S) == CHOOSE x \in S : \A y \in S : y <= x

\* SQLite rowid assignment for an INTEGER PRIMARY KEY column: one more than
\* the largest id in the table, 1 for an empty table
SqliteRowid(t) == IF DOMAIN t = {} THEN 1 ELSE Max(DOMAIN t) + 1

\* the id the FastAPI engine (fastapi_backend.database) assigns: the storage
\* engine assigns ids and may reuse the id of a deleted row; taken to be the
\* same SQLite assignment as the Flask implementation's
EngineNextId(t) == SqliteRowid(t)

\* the id of the next inserted row
NextId(im, t) == IF im = "flask" THEN SqliteRowid(t) ELSE EngineNextId(t)

\* the i-th read of the clock by a handler that starts at time t with input p
Read(t, p, i) == IF p > 0 /\ i >= p THEN t + 1 ELSE t

\* the clock after a handler that starts at time t with input p
After(t, p) == IF p > 0 THEN t + 1 ELSE t

\* clock inputs: the clock stands still, or advances before read 1..n
Steady == {0}
Drift(t, n) == IF t < MaxTime THEN 0..n ELSE {0}

(***************************** the model class *****************************)
\* InsertDefaults with updated_at declared, and so filled, before created_at
InsertDefaultsSwapped(im, vals, t, p, i) ==
  [location |-> vals.location, available |-> vals.available,
   power |-> vals.power, type |-> vals.type, notes |-> vals.notes,
   last_used |-> IF im = "flask" THEN Read(t, p, i) ELSE NoTime,
   created_at |-> Read(t, p, i + 2),
   updated_at |-> Read(t, p, i + 1)]

\* column defaults at INSERT.  Flask: last_used, created_at and updated_at
\* each default to their own utcnow() call, in column order.  FastAPI:
\* last_used is nullable with no default; created_at and updated_at default
\* to their own utcnow() call.  Reads i, i+1, i+2 of the handler.
InsertDefaults(im, vals, t, p, i) ==
  [location |-> vals.location, available |-> vals.available,
   power |-> vals.power, type |-> vals.type, notes |-> vals.notes,
   last_used |-> IF im = "flask" THEN Read(t, p, i) ELSE NoTime,
   created_at |-> Read(t, p, i + 1),
   updated_at |-> Read(t, p, i + 2)]

\* sample_chargers
SampleChargers ==
  << [location |-> "Downtown Parking Garage", available |-> TRUE,
      power |-> "50kW", type |-> "CCS",
      notes |-> "Located near the elevator on level 2"],
     [location |-> "City Hall - North Lot", available |-> FALSE,
      power |-> "150kW", type |-> "CCS/CHAdeMO",
      notes |-> "Available to public during business hours"],
     [location |-> "Shopping Mall - Level 2", available |-> TRUE,
      power |-> "22kW", type |-> "Type 2",
      notes |-> "4 hour maximum charging time"],
     [location |-> "Public Library", available |-> TRUE,
      power |-> "11kW", type |-> "Type 2",
      notes |-> "Free charging for library card holders"],
     [location |-> "Central Park - East Entrance", available |-> FALSE,
      power |-> "7kW", type |-> "Type 1",
      notes |-> "Solar powered charger"],
     [location |-> "Tech Campus - Building A", available |-> TRUE,
      power |-> "350kW", type |-> "CCS",
      notes |-> "High-speed charging station"] >>

NSample == Len(SampleChargers)

\* reads of the clock taken by seeding: three per sample row
SeedReads == 3 * NSample

\* add_sample_data / the module-level seeding: if the table holds no row,
\* insert the sample rows (one commit); otherwise leave it alone.
\* Row k takes the reads 3k-2, 3k-1, 3k of the clock and, inserted k-th into
\* an empty table, the id k.
add_sample_data(im, t, at, p) ==
  IF Cardinality(DOMAIN t) > 0 THEN t
  ELSE [k \in 1..NSample |->
          InsertDefaults(im, SampleChargers[k], at, p, 3 * k - 2)]

\* initialize_db: the FastAPI http middleware runs add_sample_data before
\* every request is routed; Flask seeds at import time only
initialize_db(im, t, at, p) ==
  IF im = "fastapi" THEN add_sample_data(im, t, at, p) ELSE t

\* index of the handler's own first read of the clock (after the seeding's)
H == SeedReads + 1

(***************************** responses ***********************************)
\* datetime.isoformat(), None for a NULL column
Iso(t) == IF t = NoTime THEN <<>> ELSE <<"iso", t>>

\* Charger.to_dict / format_charger
format_charger(id, r) ==
  [id |-> id, location |-> r.location, available |-> r.available,
   power |-> r.power, type |-> r.type, notes |-> r.notes,
   lastUsed |-> Iso(r.last_used), createdAt |-> Iso(r.created_at),
   updatedAt |-> Iso(r.updated_at)]

NoReq == [op |-> "none", status |-> 0]

\* the request being handled is not the first one the process serves
Warm == last.op /= "none"

\* the worker threads that run concurrent update requests
Workers == {"w1", "w2"}

Idle == [w \in Workers |-> [pc |-> "idle"]]
NoStats == [pc |-> "idle"]

(***************************** start ***************************************)
\* Flask: app.py is imported, create_all and the seeding have run on a fresh
\* database file.  FastAPI: main.py is imported, create_all has run; the
\* table is empty until the first request passes the middleware.
InitWith(P) ==
  /\ impl \in Impls
  /\ \E p \in P :
       IF impl = "flask"
       THEN table = add_sample_data("flask", <<>>, 0, p) /\ now = After(0, p)
       ELSE table = <<>> /\ now = 0 /\ p = 0
  /\ last = NoReq
  /\ gone = {}
  /\ reqs = Idle
  /\ stats = NoStats

Init == InitWith(Steady)

\* the wall clock advances between requests
Tick ==
  /\ now < MaxTime
  /\ now' = now + 1
  /\ UNCHANGED <<impl, table, last, gone, reqs, stats>>

(***************************** the session **********************************)
\* the value of field f of a request body, d when the body does not carry it
Field(body, f, d) == IF f \in DOMAIN body THEN body[f] ELSE d

\* the row with the fields the body carries assigned (setattr per key)
Assign(row, body) ==
  [c \in Cols |-> IF c \in DOMAIN body THEN body[c] ELSE row[c]]

\* Session.commit() of one loaded and modified row: the unit of work writes
\* an UPDATE only when some attribute differs from the value it loaded
\* (snap); the UPDATE sets the changed columns only, and updated_at, when it
\* is not among them, is set by onupdate=datetime.utcnow (tFlush).
\* stored: the row in the table at the time of the UPDATE.
Flush(stored, snap, new, tFlush) ==
  LET changed == {c \in Cols : new[c] /= snap[c]}
  IN  IF changed = {} THEN stored
      ELSE [c \in Cols |->
              IF c \in changed THEN new[c]
              ELSE IF c = "updated_at" THEN tFlush
              ELSE stored[c]]

\* app.py update_charger, the assignments before the commit:
\* last_used is read from the clock whenever the body's available is False
flask_assign(row, body, tUsed) ==
  LET r1 == Assign(row, body)
  IN  IF "available" \in DOMAIN body /\ body.available = FALSE
      THEN [r1 EXCEPT !.last_used = tUsed]
      ELSE r1

\* fastapi_assign with updated_at copied from the row's created_at instead of
\* read from the clock
fastapi_assign_stale(row, body, tUsed, tUpd) ==
  LET r0 == IF "available" \in DOMAIN body /\ body.available = FALSE
               /\ row.available = TRUE
            THEN [row EXCEPT !.last_used = tUsed]
            ELSE row
      r1 == Assign(r0, body)
  IN  [r1 EXCEPT !.updated_at = row.created_at]

\* main.py update_charger / partial_update_charger, the assignments before
\* the commit: last_used is read from the clock when the body's available is
\* False and the loaded row's available is True; updated_at is assigned
fastapi_assign(row, body, tUsed, tUpd) ==
  LET r0 == IF "available" \in DOMAIN body /\ body.available = FALSE
               /\ row.available = TRUE
            THEN [row EXCEPT !.last_used = tUsed]
            ELSE row
      r1 == Assign(r0, body)
  IN  [r1 EXCEPT !.updated_at = tUpd]

\* the row an update stores, the whole handler run at once on the loaded row
UpdatedRow(im, row, body, t, p) ==
  IF im = "flask"
  THEN Flush(row, row, flask_assign(row, body, Read(t, p, H)), Read(t, p, H + 1))
  ELSE Flush(row, row,
             fastapi_assign(row, body, Read(t, p, H), Read(t, p, H + 1)),
             Read(t, p, H + 2))

\* an in-flight stats request learns nothing of other requests' commits;
\* the model notes on it that the set of stored rows changed under it
Touched(t2) ==
  IF stats.pc /= "idle" /\ DOMAIN t2 /= DOMAIN table
  THEN [stats EXCEPT !.mixed = TRUE]
  ELSE stats

(***************************** create **************************************)
Required == <<"location", "power", "type">>

MissingMsg(f) ==
  CASE f = "location" -> "Missing required field: location"
    [] f = "power" -> "Missing required field: power"
    [] f = "type" -> "Missing required field: type"

\* the first required field the body does not carry, Absent if it has all
FirstMissing(body) ==
  IF \A k \in 1..Len(Required) : Required[k] \in DOMAIN body THEN Absent
  ELSE Required[CHOOSE k \in 1..Len(Required) :
                  /\ Required[k] \notin DOMAIN body
                  /\ \A j \in 1..(k - 1) : Required[j] \in DOMAIN body]

\* the column values add_charger passes to Charger(...)
NewValues(im, body) ==
  [location |-> body.location,
   available |-> Field(body, "available", TRUE),
   power |-> body.power,
   type |-> body.type,
   notes |-> Field(body, "notes", IF im = "flask" THEN "" ELSE NULL)]

\* POST /chargers
add_charger(body, p) ==
  LET t1 == initialize_db(impl, table, now, p)
      miss == FirstMissing(body)
      id == NextId(impl, t1)
      row == InsertDefaults(impl, NewValues(impl, body), now, p, H)
  IN  /\ IF miss /= Absent
         THEN /\ table' = t1
              /\ gone' = gone
              /\ last' = [op |-> "create", body |-> body, pre |-> table, warm |-> Warm,
                          t0 |-> now, t1 |-> After(now, p),
                          status |-> IF impl = "flask" THEN 400 ELSE 422,
                          out |-> IF impl = "flask" THEN MissingMsg(miss)
                                  ELSE "field required"]
         ELSE /\ id <= MaxId
              /\ table' = t1 @@ (id :> row)
              /\ gone' = {}
              /\ last' = [op |-> "create", body |-> body, pre |-> table, warm |-> Warm,
                          t0 |-> now, t1 |-> After(now, p),
                          status |-> 201, id |-> id,
                          out |-> format_charger(id, row)]
      /\ now' = After(now, p)
      /\ stats' = Touched(table')
      /\ UNCHANGED <<impl, reqs>>

(***************************** update **************************************)
\* PUT and PATCH /chargers/{id}: one function in app.py, two identical
\* functions in main.py
Update(method, id, body, p) ==
  LET t1 == initialize_db(impl, table, now, p)
  IN  /\ IF id \notin DOMAIN t1
         THEN /\ table' = t1
              /\ last' = [op |-> "update", method |-> method, id |-> id,
                          body |-> body, pre |-> table, warm |-> Warm,
                          t0 |-> now, t1 |-> After(now, p), status |-> 404]
         ELSE LET row == UpdatedRow(impl, t1[id], body, now, p)
              IN  /\ table' = [t1 EXCEPT ![id] = row]
                  /\ last' = [op |-> "update", method |-> method, id |-> id,
                              body |-> body, pre |-> table, warm |-> Warm,
                              before |-> t1[id], after |-> row,
                              overlapped |-> FALSE,
                              t0 |-> now, t1 |-> After(now, p), status |-> 200,
                              out |-> format_charger(id, row)]
      /\ now' = After(now, p)
      /\ stats' = Touched(table')
      /\ UNCHANGED <<impl, gone, reqs>>

update_charger(id, body, p) == Update("PUT", id, body, p)

partial_update_charger(id, body, p) == Update("PATCH", id, body, p)

(***************************** delete, get, list ***************************)
\* the table without row id
Without(t, id) == [i \in DOMAIN t \ {id} |-> t[i]]

\* DELETE /chargers/{id}
delete_charger(id, p) ==
  LET t1 == initialize_db(impl, table, now, p)
  IN  /\ IF id \notin DOMAIN t1
         THEN /\ table' = t1
              /\ gone' = gone
              /\ last' = [op |-> "delete", id |-> id, pre |-> table, warm |-> Warm,
                          t0 |-> now, t1 |-> After(now, p), status |-> 404]
         ELSE /\ table' = Without(t1, id)
              /\ gone' = gone \cup {id}
              /\ last' = [op |-> "delete", id |-> id, pre |-> table, warm |-> Warm,
                          t0 |-> now, t1 |-> After(now, p), status |-> 200,
                          out |-> "Charger deleted successfully"]
      /\ now' = After(now, p)
      /\ stats' = Touched(table')
      /\ UNCHANGED <<impl, reqs>>

\* GET /chargers/{id}
get_charger(id, p) ==
  LET t1 == initialize_db(impl, table, now, p)
  IN  /\ table' = t1
      /\ last' = IF id \notin DOMAIN t1
                 THEN [op |-> "get", id |-> id, pre |-> table, warm |-> Warm,
                       t0 |-> now, t1 |-> After(now, p), status |-> 404]
                 ELSE [op |-> "get", id |-> id, pre |-> table, warm |-> Warm,
                       t0 |-> now, t1 |-> After(now, p), status |-> 200,
                       out |-> format_charger(id, t1[id])]
      /\ now' = After(now, p)
      /\ stats' = Touched(table')
      /\ UNCHANGED <<impl, gone, reqs>>

\* str.lower() on the values the available query parameter takes here
Lower(s) ==
  CASE s \in {"true", "True", "TRUE"} -> "true"
    [] s \in {"false", "False", "FALSE"} -> "false"
    [] OTHER -> s

\* app.py get_chargers: the available parameter is compared as a lowered
\* string with 'true'; the type parameter is never read
flask_filter(t, available, type) ==
  {i \in DOMAIN t :
     available /= Absent => t[i].available = (Lower(available) = "true")}

\* main.py get_chargers: available: Optional[bool] (pydantic parses the
\* string), type: Optional[str]; both filters are applied when given
fastapi_filter(t, available, type) ==
  {i \in DOMAIN t :
     /\ available /= Absent => t[i].available = (Lower(available) = "true")
     /\ type /= Absent => t[i].type = type}

\* GET /chargers?available=..&type=..
get_chargers(available, type, p) ==
  LET t1 == initialize_db(impl, table, now, p)
      ids == IF impl = "flask" THEN flask_filter(t1, available, type)
             ELSE fastapi_filter(t1, available, type)
  IN  /\ table' = t1
      /\ last' = [op |-> "list", available |-> available, type |-> type,
                  pre |-> table, warm |-> Warm, t0 |-> now, t1 |-> After(now, p),
                  status |-> 200,
                  out |-> {format_charger(i, t1[i]) : i \in ids}]
      /\ now' = After(now, p)
      /\ stats' = Touched(table')
      /\ UNCHANGED <<impl, gone, reqs>>

(***************************** stats ***************************************)
\* Charger.query.count()
CountAll(t) == Cardinality(DOMAIN t)

\* Charger.query.filter_by(available=True).count()
CountAvailable(t) == Cardinality({i \in DOMAIN t : t[i].available = TRUE})

\* GroupByType with the available filter of the previous query left on
GroupByTypeAvailable(t) ==
  [ty \in {t[i].type : i \in DOMAIN t} |->
     Cardinality({i \in DOMAIN t : t[i].type = ty /\ t[i].available = TRUE})]

\* query(Charger.type, func.count(Charger.id)).group_by(Charger.type)
GroupByType(t) ==
  [ty \in {t[i].type : i \in DOMAIN t} |->
     Cardinality({i \in DOMAIN t : t[i].type = ty})]

StatsResponse(total, available, types) ==
  [totalChargers |-> total, availableChargers |-> available,
   unavailableChargers |-> total - available, chargerTypes |-> types]

\* GET /chargers/stats (/chargers/stats/summary), no other request's commit
\* between its three queries
get_charger_stats(p) ==
  LET t1 == initialize_db(impl, table, now, p)
  IN  /\ stats.pc = "idle"
      /\ table' = t1
      /\ last' = [op |-> "stats", pre |-> table, warm |-> Warm, mixed |-> FALSE,
                  t0 |-> now, t1 |-> After(now, p), status |-> 200,
                  out |-> StatsResponse(CountAll(t1), CountAvailable(t1),
                                        GroupByType(t1))]
      /\ now' = After(now, p)
      /\ UNCHANGED <<impl, gone, reqs, stats>>

\* the same handler, its three queries as separate steps
StatsCount(p) ==
  LET t1 == initialize_db(impl, table, now, p)
  IN  /\ stats.pc = "idle"
      /\ table' = t1
      /\ stats' = [pc |-> "counted", total |-> CountAll(t1), mixed |-> FALSE]
      /\ now' = After(now, p)
      /\ UNCHANGED <<impl, last, gone, reqs>>

StatsAvailable ==
  /\ stats.pc = "counted"
  /\ stats' = [pc |-> "filtered", total |-> stats.total,
               available |-> CountAvailable(table), mixed |-> stats.mixed]
  /\ UNCHANGED <<impl, now, table, last, gone, reqs>>

StatsGroup ==
  /\ stats.pc = "filtered"
  /\ last' = [op |-> "stats", pre |-> table, warm |-> Warm, mixed |-> stats.mixed,
              t0 |-> now, t1 |-> now, status |-> 200,
              out |-> StatsResponse(stats.total, stats.available,
                                    GroupByType(table))]
  /\ stats' = NoStats
  /\ UNCHANGED <<impl, now, table, gone, reqs>>

(***************************** concurrent updates **************************)
\* PUT /chargers/{id} as the steps a worker thread takes while other
\* requests run: the middleware and the SELECT of the row,
UpdRead(s, id, body, p) ==
  LET t1 == initialize_db(impl, table, now, p)
  IN  /\ reqs[s].pc = "idle"
      /\ table' = t1
      /\ IF id \notin DOMAIN t1
         THEN /\ reqs' = reqs
              /\ last' = [op |-> "update", method |-> "PUT", id |-> id,
                          body |-> body, pre |-> table, warm |-> Warm,
                          t0 |-> now, t1 |-> After(now, p), status |-> 404]
         ELSE /\ reqs' = [reqs EXCEPT ![s] =
                            [pc |-> "read", id |-> id, body |-> body,
                             snap |-> t1[id], overlapped |-> FALSE]]
              /\ last' = last
      /\ now' = After(now, p)
      /\ stats' = Touched(table')
      /\ UNCHANGED <<impl, gone>>

\* the assignments to the loaded object, which read the clock,
UpdAssign(s, p) ==
  /\ reqs[s].pc = "read"
  /\ reqs' = [reqs EXCEPT ![s] =
                [pc |-> "assigned", id |-> reqs[s].id, body |-> reqs[s].body,
                 snap |-> reqs[s].snap, overlapped |-> reqs[s].overlapped,
                 new |-> IF impl = "flask"
                         THEN flask_assign(reqs[s].snap, reqs[s].body,
                                           Read(now, p, H))
                         ELSE fastapi_assign(reqs[s].snap, reqs[s].body,
                                             Read(now, p, H),
                                             Read(now, p, H + 1))]]
  /\ now' = After(now, p)
  /\ UNCHANGED <<impl, table, last, gone, stats>>

\* and the commit, which writes the UPDATE and ends the request.  Every
\* other request that has loaded the same row and not yet committed is
\* noted as overlapped when the commit changes the row.
UpdCommit(s) ==
  LET r == reqs[s]
      row == Flush(table[r.id], r.snap, r.new, now)
  IN  /\ r.pc = "assigned"
      /\ r.id \in DOMAIN table
      /\ table' = [table EXCEPT ![r.id] = row]
      /\ reqs' = [u \in Workers |->
                    IF u = s THEN [pc |-> "idle"]
                    ELSE IF reqs[u].pc /= "idle" /\ reqs[u].id = r.id
                            /\ row /= table[r.id]
                         THEN [reqs[u] EXCEPT !.overlapped = TRUE]
                         ELSE reqs[u]]
      /\ last' = [op |-> "update", method |-> "PUT", id |-> r.id,
                  body |-> r.body, pre |-> table, warm |-> Warm,
                  before |-> table[r.id], after |-> row,
                  overlapped |-> r.overlapped,
                  t0 |-> now, t1 |-> now, status |-> 200,
                  out |-> format_charger(r.id, row)]
      /\ UNCHANGED <<impl, now, gone, stats>>

(***************************** inputs **************************************)
CreateOk == [location |-> "Lot A", power |-> "50kW", type |-> "CCS"]
CreateFull == [location |-> "Lot B", available |-> FALSE, power |-> "22kW",
               type |-> "Type 2", notes |-> "behind the gate"]
CreateNoLocation == [power |-> "50kW", type |-> "CCS"]
CreateNoPower == [location |-> "Lot A", type |-> "CCS"]
CreateNoType == [location |-> "Lot A", power |-> "50kW"]
CreateEmptyLocation == [location |-> "", power |-> "50kW", type |-> "CCS"]
CreateEmptyType == [location |-> "Lot A", power |-> "50kW", type |-> ""]

CreateBodies == {CreateOk, CreateFull, CreateNoLocation, CreateNoPower,
                 CreateNoType, CreateEmptyLocation, CreateEmptyType}

SetUnavailable == [available |-> FALSE]
SetAvailable == [available |-> TRUE]
SameLocation == [location |-> "Downtown Parking Garage"]
Retype == [type |-> "Type 2", notes |-> "rewired"]

UpdateBodies == {<<>>, SetUnavailable, SetAvailable, SameLocation, Retype}

\* the clock advances between the handler's own first and second read
HandlerDrift == IF now < MaxTime THEN {0, H + 1} ELSE {0}

(***************************** specifications ******************************)
\* every handler, each run to completion, the clock standing still
Next ==
  \/ \E b \in {CreateOk, CreateNoLocation} : add_charger(b, 0)
  \/ update_charger(1, SetUnavailable, 0)
  \/ partial_update_charger(1, SetAvailable, 0)
  \/ \E id \in 1..MaxId : delete_charger(id, 0)
  \/ \E id \in {1, NSample, MaxId} : get_charger(id, 0)
  \/ \E a \in {Absent, "true", "False"}, ty \in {Absent, "CCS"} :
       get_chargers(a, ty, 0)
  \/ get_charger_stats(0)

Spec == Init /\ [][Next]_vars

\* creation under a clock that advances while the rows are inserted
NextCreate ==
  \/ Tick
  \/ \E b \in CreateBodies, p \in Drift(now, H + 2) : add_charger(b, p)

SpecCreate == InitWith(Drift(0, SeedReads)) /\ [][NextCreate]_vars

\* updates, each run to completion
NextUpdate ==
  \/ Tick
  \/ \E id \in {1, 2, MaxId}, b \in UpdateBodies, p \in HandlerDrift :
       update_charger(id, b, p)
  \/ \E b \in {<<>>, SetUnavailable} : partial_update_charger(2, b, 0)

SpecUpdate == Init /\ [][NextUpdate]_vars

\* the bodies each worker's requests carry
WorkerBodies(w) == IF w = "w1" THEN {SetUnavailable, <<>>} ELSE {SetAvailable}

\* creates and updates whose steps interleave
NextConc ==
  \/ Tick
  \/ add_charger(CreateOk, 0)
  \/ \E s \in Workers : \E b \in WorkerBodies(s) : UpdRead(s, 1, b, 0)
  \/ \E s \in Workers : UpdAssign(s, 0)
  \/ \E s \in Workers : UpdCommit(s)

SpecConc == Init /\ [][NextConc]_vars

\* the stats handler's queries interleaved with creates and deletes
NextStats ==
  \/ \E b \in {CreateOk, CreateFull} : add_charger(b, 0)
  \/ \E id \in {1, 2, MaxId} : delete_charger(id, 0)
  \/ StatsCount(0)
  \/ StatsAvailable
  \/ StatsGroup

SpecStats == Init /\ [][NextStats]_vars

(***************************** claims ***************************************)
Updated == last.op = "update" /\ last.status = 200

\* the request sets available to false on a row stored as available
Transition ==
  /\ "available" \in DOMAIN last.body
  /\ last.body.available = FALSE
  /\ last.before.available = TRUE

\* C1: a successful update sets last_used to the current time exactly when
\* the request sets available to false and the stored available was true;
\* every other successful update leaves last_used as it was.
C1_LastUsedOnTransitionOnly ==
  Updated =>
    IF Transition
    THEN last.after.last_used \in last.t0..last.t1
    ELSE last.after.last_used = last.before.last_used

\* C2: every successful update, a no-op one included, sets updated_at to the
\* current time of that update.
C2_UpdatedAtRefreshed ==
  Updated => last.after.updated_at \in last.t0..last.t1

UpdatedAtNotBelowCreatedAt ==
  \A i \in DOMAIN table : table[i].updated_at >= table[i].created_at

\* C3 as stated: under every interleaving of creates and updates, the stored
\* updated_at never decreases across a commit and is always >= created_at.
C3_UpdatedAtNeverDecreases ==
  /\ UpdatedAtNotBelowCreatedAt
  /\ Updated => last.after.updated_at >= last.before.updated_at

\* C3 amended: updated_at is always >= created_at, and the commit of an
\* update that no other update of the same row overlapped (none committed
\* between this update's read of the row and its own commit) never lowers
\* updated_at.
C3_UpdatedAtMonotoneWithoutOverlap ==
  /\ UpdatedAtNotBelowCreatedAt
  /\ (Updated /\ ~last.overlapped) =>
        last.after.updated_at >= last.before.updated_at

\* an update commits and raises updated_at while the other worker is in the
\* middle of its own update of the same row
C3_Witness ==
  /\ Updated
  /\ ~last.overlapped
  /\ last.after.updated_at > last.before.updated_at
  /\ \E w \in Workers : reqs[w].pc = "assigned" /\ reqs[w].id = last.id
  /\ impl = "fastapi"

\* the first required field that the body lacks or carries empty
FirstAbsentOrEmpty(body) ==
  Required[CHOOSE k \in 1..Len(Required) :
             /\ (Required[k] \notin DOMAIN body \/ body[Required[k]] = "")
             /\ \A j \in 1..(k - 1) :
                  Required[j] \in DOMAIN body /\ body[Required[j]] /= ""]

\* C4: a create request in which location, power or type is absent or empty
\* is answered 400 'Missing required field: <name>' and stores nothing.
C4_CreateValidation ==
  (/\ last.op = "create"
   /\ \E k \in 1..Len(Required) :
        Required[k] \notin DOMAIN last.body \/ last.body[Required[k]] = "")
  => /\ last.status = 400
     /\ last.out = MissingMsg(FirstAbsentOrEmpty(last.body))
     /\ table = last.pre

Stamped(r) == r.created_at /= NoTime /\ r.updated_at /= NoTime

Created == last.op = "create" /\ last.status = 201

\* C5 as stated: every row, right after its insert by add or by seeding, has
\* created_at and updated_at non-null and equal.
C5_CreatedEqualsUpdated ==
  \A i \in DOMAIN table :
    Stamped(table[i]) /\ table[i].created_at = table[i].updated_at

\* C5 amended: every row, right after its insert by add or by seeding, has
\* created_at and updated_at non-null with created_at <= updated_at; the two
\* are equal when the clock does not advance while the request runs.
C5_CreatedNotAfterUpdated ==
  /\ \A i \in DOMAIN table :
       Stamped(table[i]) /\ table[i].created_at <= table[i].updated_at
  /\ (Created /\ last.t0 = last.t1) =>
       table[last.id].created_at = table[last.id].updated_at

\* a row inserted by add whose two defaults read different times
C5_Witness ==
  /\ Created
  /\ table[last.id].created_at < table[last.id].updated_at

RECURSIVE SumOver(_, _)
SumOver(f, S) ==
  IF S = {} THEN 0
  ELSE LET x == CHOOSE y \in S : TRUE
       IN  f[x] + SumOver(f, S \ {x})

SumOfTypeCounts(out) == SumOver(out.chargerTypes, DOMAIN out.chargerTypes)

Balanced(out) ==
  out.totalChargers = out.availableChargers + out.unavailableChargers

C7_GetAfterDeleteNotFound ==
  (last.op = "get" /\ last.id \in gone) => last.status = 404

\* the boolean an available query parameter stands for
Truthy(a) == a \in {"true", "True", "TRUE"}

\* C8: list(available, type) returns exactly the stored rows whose available
\* equals the availability filter, when given, and whose type equals the
\* type filter, when given.
C8_ListMatchesFilters ==
  last.op = "list" =>
    last.out =
      {format_charger(i, table[i]) :
         i \in {j \in DOMAIN table :
                  /\ last.available /= Absent =>
                       table[j].available = Truthy(last.available)
                  /\ last.type /= Absent => table[j].type = last.type}}

\* C9: once the process has served a request, the number of stored rows
\* grows only through a successful create request.
C9_GrowsOnlyByCreate ==
  (/\ last.op /= "none"
   /\ last.warm
   /\ Cardinality(DOMAIN table) > Cardinality(DOMAIN last.pre))
  => Created

\* C10: a successful update changes, among the body columns, only those the
\* request carries, never created_at, and no other row; an update of an
\* unknown id is answered 404 and changes nothing.
C10_UpdateFrame ==
  last.op = "update" =>
    IF last.status = 200
    THEN /\ DOMAIN table = DOMAIN last.pre
         /\ \A i \in DOMAIN table \ {last.id} : table[i] = last.pre[i]
         /\ \A c \in BodyCols :
              table[last.id][c] =
                IF c \in DOMAIN last.body THEN last.body[c]
                ELSE last.pre[last.id][c]
         /\ table[last.id].created_at = last.pre[last.id].created_at
    ELSE /\ last.status = 404
         /\ last.id \notin DOMAIN last.pre
         /\ table = last.pre

====
